---- MODULE Spec2Model ----
(***************************************************************************)
(* The Bitcoin add-entry workflow of the vault, AddBitcoinEntry::seed_hd   *)
(* (src/src/storage/vault_bitcoin.rs), as a state machine over the seed    *)
(* store, the wallet store and the calls in flight.                        *)
(***************************************************************************)
EXTENDS Integers, Sequences, FiniteSets, TLC

\* ------------------------------------------------------------------ bounds

\* A call is started only while the stored wallet holds fewer entries.
MaxEntries == 2

\* ------------------------------------------------------------- value domains

Blockchains == {"Bitcoin", "BitcoinTestnet", "Ethereum"}

\* Blockchain::get_type (crate::blockchain::chains)
get_type(blockchain) ==
    IF blockchain \in {"Bitcoin", "BitcoinTestnet"} THEN "Bitcoin" ELSE "Ethereum"

\* Blockchain::as_bitcoin_network; only called for chains of the Bitcoin type
as_bitcoin_network(blockchain) ==
    IF blockchain = "BitcoinTestnet" THEN "testnet" ELSE "bitcoin"

AddressTypes == {"P2WPKH", "P2PKH"}

\* purpose segment of an address type (84' is the segwit purpose, 44' legacy)
purpose_of(address_type) == IF address_type = "P2WPKH" THEN 84 ELSE 44

Purposes == {44, 84}
CoinTypes == {0, 1}
Accounts == {0, 3}

\* AccountHDPath: m/purpose'/coin_type'/account'
AccountHDPaths == [purpose : Purposes, coin_type : CoinTypes, account : Accounts]

\* AddressType::get_hd_path(account, network): the canonical account path
get_hd_path(address_type, account, network) ==
    [purpose |-> purpose_of(address_type),
     coin_type |-> IF network = "testnet" THEN 1 ELSE 0,
     account |-> account]

\* AccountHDPath::address_at(change, index): the full path
address_at(account_path, change, index) ==
    [purpose |-> account_path.purpose, coin_type |-> account_path.coin_type,
     account |-> account_path.account, change |-> change, index |-> index]

\* PathValue::is_ok: a hardened index is an unsigned 31-bit value (below 2^31).
\* A u32 is held as the signed number of the same 32 bits, so the values from
\* 2^31 up are the negative ones
PathValue_is_ok(value) == value >= 0 /\ value <= 2147483647

\* --------------------------------------------------------- encrypted container

Passwords == {"test", "bad"}
NoPassword == "none"

\* key stream derived from the passphrase by the KDF: different passphrases
\* in use give different keys
Kdf(password) ==
    IF password = "test" THEN 5 ELSE IF password = "" THEN 2 ELSE 11

\* Encrypted::encrypt: ciphertext and a MAC over it under the derived key
Encrypt(plain, password) ==
    [ciphertext |-> [i \in 1..Len(plain) |-> (plain[i] + Kdf(password)) % 16],
     mac |-> <<Kdf(password), [i \in 1..Len(plain) |-> (plain[i] + Kdf(password)) % 16]>>]

\* a decrypt that skips the MAC and hands back whatever the key stream gives
Decrypt_unverified(enc, password) ==
    [ok |-> TRUE,
     bytes |-> [i \in 1..Len(enc.ciphertext) |->
                   (enc.ciphertext[i] + 16 - Kdf(password)) % 16]]

\* Encrypted::decrypt: the MAC is verified before anything is decrypted
Decrypt(enc, password) ==
    IF enc.mac # <<Kdf(password), enc.ciphertext>>
    THEN [ok |-> FALSE, bytes |-> <<>>]
    ELSE [ok |-> TRUE,
          bytes |-> [i \in 1..Len(enc.ciphertext) |->
                        (enc.ciphertext[i] + 16 - Kdf(password)) % 16]]

\* ------------------------------------------------------------------- keys

\* the entropy of the stored seed, of the paired device and of a stranger
SeedPlain == <<3, 1>>
LedgerRoot == <<9, 9>>
ForeignRoot == <<0, 7>>

\* Option<XPub>::None
NoXPub == [network |-> "none", key |-> <<>>, address_type |-> "none"]

\* the public key data at an account path below a root: a one-way function of
\* the root and the path, independent of the network tag
KeyAt(root, path) == root \o <<path.purpose, path.coin_type, path.account>>

\* XPub { value, address_type }
XPub(network, key, address_type) ==
    [network |-> network, key |-> key, address_type |-> address_type]

\* XPub::standard
XPub_standard(network, key) == XPub(network, key, "P2WPKH")

\* ------------------------------------------------------------------ stores

SeedIds == {"seedBytes", "seedLedger", "seedMissing"}
WalletIds == {"w1", "w2"}

\* Seed { source: SeedSource::Bytes(Encrypted) | SeedSource::Ledger(..) }
StoredSeeds ==
    [id \in {"seedBytes", "seedLedger"} |->
        IF id = "seedBytes"
        THEN [kind |-> "Bytes", bytes |-> Encrypt(SeedPlain, "test")]
        ELSE [kind |-> "Ledger", bytes |-> Encrypt(<<>>, "test")]]

\* Wallet::default()
DefaultWallet == [entries |-> <<>>, entry_seq |-> 0, reserved |-> {}]

\* ------------------------------------------------------------ hardware device

\* what LedgerKey::new_connected, BitcoinApp::is_open and BitcoinApp::get_xpub
\* answer during one call: chosen by the environment
DeviceStates ==
    {[connected |-> FALSE, open |-> "None", reply |-> FALSE]}
    \cup [connected : {TRUE}, open : {"None", "Mainnet", "Testnet"}, reply : BOOLEAN]

\* the device observation of a call that never consulted the device
NoDevice == [connected |-> FALSE, open |-> "unasked", reply |-> FALSE]

\* exp_app: the application expected to be open for a blockchain
exp_app(blockchain) ==
    IF blockchain = "Bitcoin" THEN "Mainnet"
    ELSE IF blockchain = "BitcoinTestnet" THEN "Testnet" ELSE "None"

\* ------------------------------------------------------------ key derivation

\* ExtendedPrivKey::new_master succeeds on any non-empty seed
MasterOk(seed) == Len(seed) > 0

\* get_address: master key first, then the index check, then the derivation
get_address(blockchain, address_type, account, seed) ==
    LET network == as_bitcoin_network(blockchain) IN
    IF ~MasterOk(seed)
    THEN [err |-> "InvalidPrivateKey", xpub |-> NoXPub, steps |-> <<"new_master">>]
    ELSE IF ~PathValue_is_ok(account)
    THEN [err |-> "PrivateKeyUnavailable", xpub |-> NoXPub, steps |-> <<"new_master">>]
    ELSE [err |-> "",
          xpub |-> XPub(network,
                        KeyAt(seed, get_hd_path(address_type, account, network)),
                        address_type),
          steps |-> <<"new_master", "derive_priv">>]

\* the device's answers as far as the call asked for them
Observed(device, blockchain) ==
    IF ~device.connected THEN [connected |-> FALSE, open |-> "None", reply |-> FALSE]
    ELSE IF exp_app(blockchain) = "None" \/ device.open # exp_app(blockchain)
    THEN [connected |-> TRUE, open |-> device.open, reply |-> FALSE]
    ELSE device

\* a Ledger branch that treats an unreachable device as a failure of the call
LedgerXPub_strict(blockchain, account, device) ==
    IF ~device.connected
    THEN [err |-> "HWKeyFailed", xpub |-> NoXPub, dev |-> Observed(device, blockchain),
          steps |-> <<"device.connect">>]
    ELSE IF exp_app(blockchain) = "None" \/ device.open # exp_app(blockchain)
    THEN [err |-> "", xpub |-> NoXPub, dev |-> Observed(device, blockchain),
          steps |-> <<"device.connect", "device.is_open">>]
    ELSE IF ~device.reply
    THEN [err |-> "HWKeyFailed", xpub |-> NoXPub,
          dev |-> Observed(device, blockchain),
          steps |-> <<"device.connect", "device.is_open", "device.get_xpub">>]
    ELSE [err |-> "",
          xpub |-> XPub_standard(as_bitcoin_network(blockchain),
                                 KeyAt(LedgerRoot, account)),
          dev |-> Observed(device, blockchain),
          steps |-> <<"device.connect", "device.is_open", "device.get_xpub">>]

\* SeedSource::Ledger: no key (and no error) when the device cannot be
\* connected or another application is open; otherwise the device's key for
\* the account, or the device's error
LedgerXPub(blockchain, account, device) ==
    IF ~device.connected
    THEN [err |-> "", xpub |-> NoXPub, dev |-> Observed(device, blockchain),
          steps |-> <<"device.connect">>]
    ELSE IF exp_app(blockchain) = "None" \/ device.open # exp_app(blockchain)
    THEN [err |-> "", xpub |-> NoXPub, dev |-> Observed(device, blockchain),
          steps |-> <<"device.connect", "device.is_open">>]
    ELSE IF ~device.reply
    THEN [err |-> "HWKeyFailed", xpub |-> NoXPub,
          dev |-> Observed(device, blockchain),
          steps |-> <<"device.connect", "device.is_open", "device.get_xpub">>]
    ELSE [err |-> "",
          xpub |-> XPub_standard(as_bitcoin_network(blockchain),
                                 KeyAt(LedgerRoot, account)),
          dev |-> Observed(device, blockchain),
          steps |-> <<"device.connect", "device.is_open", "device.get_xpub">>]

\* a Bytes branch that takes a missing password for the empty password
BytesXPub_lenient(encrypted, opts, blockchain, address_type, account) ==
    LET plain == Decrypt(encrypted,
                     IF opts.seed_password = NoPassword THEN ""
                     ELSE opts.seed_password) IN
    IF ~plain.ok
    THEN [err |-> "CryptoFailed", xpub |-> NoXPub, dev |-> NoDevice,
          steps |-> <<"decrypt">>]
    ELSE LET a == get_address(blockchain, address_type, account.account,
                              plain.bytes) IN
         [err |-> a.err, xpub |-> a.xpub, dev |-> NoDevice,
          steps |-> <<"decrypt">> \o a.steps]

\* SeedSource::Bytes: the password is required, the seed is decrypted and the
\* account's extended public key derived
BytesXPub(encrypted, opts, blockchain, address_type, account) ==
    IF opts.seed_password = NoPassword
    THEN [err |-> "PasswordRequired", xpub |-> NoXPub, dev |-> NoDevice,
          steps |-> <<>>]
    ELSE LET plain == Decrypt(encrypted, opts.seed_password) IN
         IF ~plain.ok
         THEN [err |-> "CryptoFailed", xpub |-> NoXPub, dev |-> NoDevice,
               steps |-> <<"decrypt">>]
         ELSE LET a == get_address(blockchain, address_type, account.account,
                                   plain.bytes) IN
              [err |-> a.err, xpub |-> a.xpub, dev |-> NoDevice,
               steps |-> <<"decrypt">> \o a.steps]

\* the match on seed.source: the derived key (NoXPub when the device gives none)
KeyMaterial(seed, opts, blockchain, address_type, account, device) ==
    IF seed.kind = "Bytes"
    THEN BytesXPub(seed.bytes, opts, blockchain, address_type, account)
    ELSE LedgerXPub(blockchain, account, device)

\* a chain check that lets every blockchain through
ChainAccepted_any(blockchain) == TRUE

\* blockchain.get_type() != BlockchainType::Bitcoin is refused
ChainAccepted(blockchain) == get_type(blockchain) = "Bitcoin"

\* a purpose check that lets every path through
PurposeMatches_any(account, hd_path) == TRUE

\* a check that compares the whole account path, coin type included
PurposeMatches_whole(account, hd_path) == account = hd_path

\* account.purpose() != hd_path.purpose() is refused
PurposeMatches(account, hd_path) == account.purpose = hd_path.purpose

\* a reconciliation that never compares the two keys
XPubConflict_ignored(supplied, derived) == FALSE

\* opts.xpub.is_some() && xpub.is_some() && opts.xpub != xpub
XPubConflict(supplied, derived) ==
    supplied # NoXPub /\ derived # NoXPub /\ supplied # derived

\* xpub.or_else(|| opts.xpub.clone())
Reconciled(derived, supplied) == IF derived # NoXPub THEN derived ELSE supplied

\* a missing-key check that never fires
KeyMissing_never(xpub) == FALSE

\* xpub.is_none() after the reconciliation
KeyMissing(xpub) == xpub = NoXPub

\* a network check that lets every key through
NetworkMatches_any(xpub, blockchain) == TRUE

\* xpub.value.network != blockchain.as_bitcoin_network() is refused
NetworkMatches(xpub, blockchain) == xpub.network = as_bitcoin_network(blockchain)

\* seed_hd up to the point where it turns to the wallet store
SeedHdPrefix(seedStore, seed_id, hd_path, blockchain, opts, device) ==
    LET none == [err |-> "", derived |-> NoXPub, xpub |-> NoXPub, dev |-> NoDevice,
                 account |-> hd_path, trace |-> <<>>] IN
    IF ~ChainAccepted(blockchain)
    THEN [none EXCEPT !.err = "IncorrectBlockchainError"]
    ELSE IF seed_id \notin DOMAIN seedStore
    THEN [none EXCEPT !.err = "NotFound", !.trace = <<"seeds.get">>]
    ELSE
    LET seed == seedStore[seed_id]
        address_type == "P2WPKH"
        account == get_hd_path(address_type, hd_path.account,
                               as_bitcoin_network(blockchain)) IN
    IF ~PurposeMatches(account, hd_path)
    THEN [none EXCEPT !.err = "UnsupportedDataError", !.trace = <<"seeds.get">>]
    ELSE
    LET km == KeyMaterial(seed, opts, blockchain, address_type, account, device)
        got == [none EXCEPT !.derived = km.xpub, !.dev = km.dev, !.account = account,
                            !.trace = <<"seeds.get">> \o km.steps] IN
    IF km.err # ""
    THEN [got EXCEPT !.err = km.err]
    ELSE IF XPubConflict(opts.xpub, km.xpub)
    THEN [got EXCEPT !.err = "InvalidDataError"]
    ELSE
    LET xpub == Reconciled(km.xpub, opts.xpub) IN
    IF KeyMissing(xpub)
    THEN [got EXCEPT !.err = "PublicKeyUnavailable"]
    ELSE IF ~NetworkMatches(xpub, blockchain)
    THEN [got EXCEPT !.err = "IncorrectBlockchainError", !.xpub = xpub]
    ELSE [got EXCEPT !.xpub = xpub]

\* ------------------------------------------------------------- wallet record

\* Wallet::next_entry_id: the next sequential id
next_entry_id(wallet) == wallet.entry_seq

\* WalletEntry { id, blockchain, address: Some(ExtendedPub(xpub)),
\*               key: PKType::SeedHd(SeedRef { seed_id, hd_path }) }
NewEntry(id, blockchain, xpub, seed_id, account) ==
    [id |-> id, blockchain |-> blockchain, address |-> xpub,
     key |-> [kind |-> "SeedHd", seed_id |-> seed_id,
              hd_path |-> address_at(account, 0, 0)]]

\* a push that starts the entry list over with the new entry
PushEntry_replaces(wallet, entry) == [wallet EXCEPT !.entries = <<entry>>]

\* wallet.entries.push(entry): the entry goes after the entries already there
PushEntry(wallet, entry) ==
    [wallet EXCEPT !.entries = Append(wallet.entries, entry)]

\* a stale sequence: entry_seq left at the id just issued
NextEntrySeq_stale(id) == id

\* wallet.entry_seq = id + 1
NextEntrySeq(id) == id + 1

\* the reservations of a wallet's seed-derived entries
EntryReservations(wallet) ==
    {[seed_id |-> wallet.entries[i].key.seed_id,
      account_id |-> wallet.entries[i].key.hd_path.account] :
        i \in {j \in 1..Len(wallet.entries) : wallet.entries[j].key.kind = "SeedHd"}}

\* an update that writes the record as given, registering nothing
Reserve_forgets(wallet) == wallet

\* the record wallets.update writes: the reservations of the entries are
\* registered in the same replace
Reserve(wallet) ==
    [wallet EXCEPT !.reserved = wallet.reserved \cup EntryReservations(wallet)]

\* ---------------------------------------------------------------- the state

Callers == {"a", "b"}

VARIABLES
    seeds,      \* the seed store: seed id -> Seed
    wallets,    \* the wallet store: wallet id -> Wallet
    call,       \* per caller: the seed_hd call in flight (its arguments, what it
                \* saw, the wallet store as it was when called), its position
                \* and its result
    returned    \* per wallet id: the entry ids returned by successful calls, in order

\* the state of the other components, each the subject of its own specification
VARIABLES
    keyfile,    \* a keystore JSON document and what json::decode made of it
    sealed,     \* a plaintext, the Encrypted made of it and what decrypt gave back
    ledger,     \* a Ledger::sign_tx call: payload, frames sent, the device, the outcome
    keystore,   \* a keystore directory, the write in progress and what readers saw
    pkmsg,      \* a protobuf PrivateKey message and what try_from made of it
    derivation, \* a get_address call: its arguments, the steps taken, the result
    storage     \* a base directory, the directories that exist and the last call

vars == <<seeds, wallets, call, returned,
          keyfile, sealed, ledger, keystore, pkmsg, derivation, storage>>

\* a component that takes no part in the specification at hand
Off == [pc |-> "off"]

\* what an action of the wallet store leaves alone
besidesVault == <<keyfile, sealed, ledger, keystore, pkmsg, derivation, storage>>

NoResult == [ok |-> FALSE, id |-> -1, err |-> ""]
Ok(id) == [ok |-> TRUE, id |-> id, err |-> ""]
Err(e) == [ok |-> FALSE, id |-> -1, err |-> e]

NoOpts == [seed_password |-> NoPassword, xpub |-> NoXPub]

IdleCall ==
    [pc |-> "idle", wallet_id |-> "w1", seed_id |-> "seedMissing",
     hd_path |-> [purpose |-> 84, coin_type |-> 0, account |-> 0],
     blockchain |-> "Bitcoin", opts |-> NoOpts,
     dev |-> NoDevice, derived |-> NoXPub, xpub |-> NoXPub,
     account |-> [purpose |-> 84, coin_type |-> 0, account |-> 0],
     before |-> [id \in {"w1"} |-> DefaultWallet],
     wallet |-> DefaultWallet, id |-> -1, result |-> NoResult, trace |-> <<>>]

\* the extended public keys a caller may supply for a request: none, the one
\* the seed derives, that key under the other network or another address
\* type, and a key of another root
SuppliedXPubs(seed_id, hd_path, blockchain) ==
    LET net == as_bitcoin_network(blockchain)
        other == IF net = "bitcoin" THEN "testnet" ELSE "bitcoin"
        root == IF seed_id = "seedBytes" THEN SeedPlain ELSE LedgerRoot
        path == get_hd_path("P2WPKH", hd_path.account, net) IN
    {NoXPub,
     XPub(net, KeyAt(root, path), "P2WPKH"),
     XPub(other, KeyAt(root, path), "P2WPKH"),
     XPub(net, KeyAt(root, path), "P2PKH"),
     XPub(net, KeyAt(ForeignRoot, path), "P2WPKH")}

\* the vault as the tests set it up: the seeds stored, one empty wallet
VaultInit ==
    /\ seeds = StoredSeeds
    /\ wallets = [id \in {"w1"} |-> DefaultWallet]
    /\ call = [p \in Callers |-> IdleCall]
    /\ returned = [id \in WalletIds |-> <<>>]

Init ==
    /\ VaultInit
    /\ keyfile = Off
    /\ sealed = Off
    /\ ledger = Off
    /\ keystore = Off
    /\ pkmsg = Off
    /\ derivation = Off
    /\ storage = Off

\* ---------------------------------------------------------------- the steps

\* the requests a caller may make, with the device's answers during the call
Requests ==
    {r \in [wallet_id : WalletIds, seed_id : SeedIds, hd_path : AccountHDPaths,
            blockchain : Blockchains, seed_password : Passwords \cup {NoPassword}] :
        TRUE}

\* the device's possible answers during a call for a seed: only a call on a
\* stored Ledger seed can come to ask the device
DeviceAnswers(seedStore, seed_id) ==
    IF seed_id \in DOMAIN seedStore /\ seedStore[seed_id].kind = "Ledger"
    THEN DeviceStates
    ELSE {[connected |-> FALSE, open |-> "None", reply |-> FALSE]}

\* seed_hd is called and runs up to the wallet store: chain check, seeds.get,
\* purpose check, key material, reconciliation, network check
SeedHdCallOf(p, requests) ==
    /\ call[p].pc = "idle"
    /\ Len(wallets["w1"].entries) < MaxEntries
    /\ \E r \in requests :
       \E device \in DeviceAnswers(seeds, r.seed_id) :
         \E xpub \in SuppliedXPubs(r.seed_id, r.hd_path, r.blockchain) :
           \E pre \in {SeedHdPrefix(seeds, r.seed_id, r.hd_path, r.blockchain,
                          [seed_password |-> r.seed_password, xpub |-> xpub],
                          device)} :
             LET begun == [IdleCall EXCEPT
                              !.wallet_id = r.wallet_id, !.seed_id = r.seed_id,
                              !.hd_path = r.hd_path, !.blockchain = r.blockchain,
                              !.opts = [seed_password |-> r.seed_password,
                                        xpub |-> xpub],
                              !.dev = pre.dev, !.derived = pre.derived,
                              !.xpub = pre.xpub, !.account = pre.account,
                              !.trace = pre.trace, !.before = wallets] IN
             call' = [call EXCEPT ![p] =
                         IF pre.err # ""
                         THEN [begun EXCEPT !.pc = "done", !.result = Err(pre.err)]
                         ELSE [begun EXCEPT !.pc = "read"]]
    /\ UNCHANGED <<seeds, wallets, returned>>
    /\ UNCHANGED besidesVault

\* seed_hd called with any of the requests
SeedHdCall(p) == SeedHdCallOf(p, Requests)

\* a call that reads the wallet record before anything else it does
ThenWalletsGet_first(trace) == <<"wallets.get">> \o trace

\* self.wallets.get comes after all that the call did up to line 128
ThenWalletsGet(trace) == Append(trace, "wallets.get")

\* wallets.get, then the entry is pushed on the caller's copy of the wallet
WalletsGet(p) ==
    /\ call[p].pc = "read"
    /\ LET c == call[p] IN
       call' = [call EXCEPT ![p] =
                   IF c.wallet_id \notin DOMAIN wallets
                   THEN [c EXCEPT !.pc = "done", !.result = Err("NotFound"),
                                  !.trace = ThenWalletsGet(c.trace)]
                   ELSE LET wallet == wallets[c.wallet_id]
                            id == next_entry_id(wallet) IN
                        [c EXCEPT !.pc = "write", !.id = id,
                                  !.wallet = [PushEntry(wallet,
                                          NewEntry(id, c.blockchain, c.xpub,
                                                   c.seed_id, c.account))
                                      EXCEPT !.entry_seq = NextEntrySeq(id)],
                                  !.trace = ThenWalletsGet(c.trace)]]
    /\ UNCHANGED <<seeds, wallets, returned>>
    /\ UNCHANGED besidesVault

\* wallets.update with the caller's copy: a full replace by id, NotFound when
\* the id is unknown; then Ok(id)
WalletsUpdate(p) ==
    /\ call[p].pc = "write"
    /\ LET c == call[p] IN
       IF c.wallet_id \notin DOMAIN wallets
       THEN /\ call' = [call EXCEPT ![p] =
                          [c EXCEPT !.pc = "done", !.result = Err("NotFound"),
                                    !.trace = Append(c.trace, "wallets.update")]]
            /\ UNCHANGED <<wallets, returned>>
       ELSE /\ wallets' = [wallets EXCEPT ![c.wallet_id] = Reserve(c.wallet)]
            /\ call' = [call EXCEPT ![p] =
                          [c EXCEPT !.pc = "done", !.result = Ok(c.id),
                                    !.trace = Append(c.trace, "wallets.update")]]
            /\ returned' = [returned EXCEPT
                               ![c.wallet_id] = Append(returned[c.wallet_id], c.id)]
    /\ UNCHANGED seeds
    /\ UNCHANGED besidesVault

\* the caller takes the result
Return(p) ==
    /\ call[p].pc = "done"
    /\ call' = [call EXCEPT ![p] = IdleCall]
    /\ UNCHANGED <<seeds, wallets, returned>>
    /\ UNCHANGED besidesVault

\* one caller at a time: the calls on the wallet are applied one after another
Next ==
    \/ SeedHdCall("a")
    \/ WalletsGet("a")
    \/ WalletsUpdate("a")
    \/ Return("a")

Spec == Init /\ [][Next]_vars

\* ---------------------------------------------------------------- properties

\* C1: in every stored wallet, each seed-derived entry (PKType::SeedHd) has the
\* pair (its seed_id, the account index of its hd_path) in the wallet's
\* reserved set.
C1_ReservedCoversSeedEntries ==
    \A w \in DOMAIN wallets :
        \A i \in 1..Len(wallets[w].entries) :
            LET e == wallets[w].entries[i] IN
            e.key.kind = "SeedHd" =>
                [seed_id |-> e.key.seed_id, account_id |-> e.key.hd_path.account]
                    \in wallets[w].reserved

\* two successful calls with different seeds and accounts have been stored
C1_Witness ==
    /\ Len(wallets["w1"].entries) = 2
    /\ wallets["w1"].entries[1].key.seed_id # wallets["w1"].entries[2].key.seed_id
    /\ wallets["w1"].entries[1].key.hd_path.account
          # wallets["w1"].entries[2].key.hd_path.account
    /\ Cardinality(wallets["w1"].reserved) = 2

\* C2: with the calls applied one at a time, the stored wallet's entry_seq is
\* above the id of every entry, the entry ids are pairwise distinct, and the
\* ids returned by successful calls on a wallet are strictly increasing.
C2_IdsSequential ==
    \A w \in DOMAIN wallets :
        LET es == wallets[w].entries
            rs == returned[w] IN
        /\ \A i \in 1..Len(es) : es[i].id < wallets[w].entry_seq
        /\ \A i, j \in 1..Len(es) : i # j => es[i].id # es[j].id
        /\ \A i, j \in 1..Len(rs) : i < j => rs[i] < rs[j]

\* two calls have succeeded on the wallet, one after the other
C2_Witness ==
    /\ Len(returned["w1"]) = 2
    /\ Len(wallets["w1"].entries) = 2
    /\ call["a"].pc = "done" /\ call["a"].result.ok

\* C3: when a call has returned Ok(id), the stored wallet is the wallet as it
\* was when the call began with exactly one entry appended at the end, and
\* that entry carries the returned id, the requested blockchain, an extended
\* public key address of type P2WPKH and a SeedHd key for the given seed_id.
C3_AppendsOneP2WPKHEntry ==
    LET c == call["a"] IN
    (c.pc = "done" /\ c.result.ok) =>
        LET old == c.before[c.wallet_id].entries
            new == wallets[c.wallet_id].entries
            e == new[Len(new)] IN
        /\ Len(new) = Len(old) + 1
        /\ SubSeq(new, 1, Len(old)) = old
        /\ e.id = c.result.id
        /\ e.blockchain = c.blockchain
        /\ e.address # NoXPub
        /\ e.address.address_type = "P2WPKH"
        /\ e.key.kind = "SeedHd"
        /\ e.key.seed_id = c.seed_id

\* C4: a call that obtained a derived key X (from the decrypted seed or from
\* the device) while the caller supplied a key Y different from X has failed
\* with InvalidDataError, and the wallet store is as it was before the call.
C4_DifferentXPubRefused ==
    LET c == call["a"] IN
    (c.pc # "idle" /\ c.derived # NoXPub /\ c.opts.xpub # NoXPub
        /\ c.derived # c.opts.xpub) =>
        /\ c.pc = "done"
        /\ c.result = Err("InvalidDataError")
        /\ wallets = c.before

\* the device gave a key for the account and the caller supplied another one
C4_Witness ==
    LET c == call["a"] IN
    /\ c.pc = "done"
    /\ c.seed_id = "seedLedger"
    /\ c.dev.connected /\ c.dev.reply
    /\ c.derived # NoXPub /\ c.opts.xpub # NoXPub
    /\ c.derived.key # c.opts.xpub.key
    /\ c.result.err = "InvalidDataError"
    /\ Len(wallets["w1"].entries) = 1

\* C5: a call on a Ledger seed that found the device unreachable, or the
\* expected application not open, while the caller supplied a key Y of the
\* blockchain's network, does not fail for it: it goes on with Y, and on a
\* stored wallet it returns Ok with Y as the address of the entry it appended
\* (its only failure is NotFound for a wallet id that is not stored).
C5_DeviceUnavailableFallsBackToY ==
    LET c == call["a"] IN
    (/\ c.pc # "idle"
     /\ c.dev.open # "unasked"
     /\ ~c.dev.connected \/ c.dev.open # exp_app(c.blockchain)
     /\ c.opts.xpub # NoXPub
     /\ c.opts.xpub.network = as_bitcoin_network(c.blockchain)) =>
        /\ c.xpub = c.opts.xpub
        /\ c.pc = "done" =>
              IF c.wallet_id \in DOMAIN c.before
              THEN /\ c.result.ok
                   /\ Len(wallets[c.wallet_id].entries)
                          = Len(c.before[c.wallet_id].entries) + 1
                   /\ wallets[c.wallet_id].entries[
                          Len(wallets[c.wallet_id].entries)].address = c.opts.xpub
              ELSE c.result = Err("NotFound")

\* the device could not be connected, and the call succeeded with Y
C5_Witness ==
    LET c == call["a"] IN
    /\ c.pc = "done" /\ c.result.ok
    /\ c.seed_id = "seedLedger"
    /\ c.dev.open # "unasked" /\ ~c.dev.connected
    /\ c.opts.xpub # NoXPub
    /\ wallets["w1"].entries[Len(wallets["w1"].entries)].address = c.opts.xpub

\* C6: a call on a Ledger seed that found the device unreachable, or the
\* expected application not open, without a key supplied by the caller, has
\* failed with PublicKeyUnavailable and the wallet store is as it was.
C6_NoKeyAtAll ==
    LET c == call["a"] IN
    (/\ c.pc # "idle"
     /\ c.dev.open # "unasked"
     /\ ~c.dev.connected \/ c.dev.open # exp_app(c.blockchain)
     /\ c.opts.xpub = NoXPub) =>
        /\ c.derived = NoXPub
        /\ c.pc = "done"
        /\ c.result = Err("PublicKeyUnavailable")
        /\ wallets = c.before

\* another application is open on the device and the caller gave no key
C6_Witness ==
    LET c == call["a"] IN
    /\ c.pc = "done"
    /\ c.seed_id = "seedLedger"
    /\ c.dev.connected /\ c.dev.open # exp_app(c.blockchain)
    /\ c.opts.xpub = NoXPub
    /\ c.result.err = "PublicKeyUnavailable"

\* C7: a call whose reconciled key carries another network than the requested
\* blockchain's has failed with IncorrectBlockchainError and the wallet store
\* is as it was.
C7_NetworkMismatchRefused ==
    LET c == call["a"] IN
    (c.pc # "idle" /\ c.xpub # NoXPub
        /\ c.xpub.network # as_bitcoin_network(c.blockchain)) =>
        /\ c.pc = "done"
        /\ c.result = Err("IncorrectBlockchainError")
        /\ wallets = c.before

\* a mainnet key supplied for a BitcoinTestnet entry, the device unreachable
C7_Witness ==
    LET c == call["a"] IN
    /\ c.pc = "done"
    /\ c.blockchain = "BitcoinTestnet"
    /\ c.seed_id = "seedLedger"
    /\ c.xpub = c.opts.xpub /\ c.xpub.network = "bitcoin"
    /\ c.result.err = "IncorrectBlockchainError"

\* C8: a call with a blockchain that is not of the Bitcoin type has failed
\* with IncorrectBlockchainError without any access to the seed store, the
\* device or the wallet store, whatever its other arguments are.
C8_ChainCheckedFirst ==
    LET c == call["a"] IN
    (c.pc # "idle" /\ get_type(c.blockchain) # "Bitcoin") =>
        /\ c.pc = "done"
        /\ c.result = Err("IncorrectBlockchainError")
        /\ c.trace = <<>>
        /\ c.dev = NoDevice
        /\ wallets = c.before

\* an Ethereum request for a seed and a wallet that are not stored
C8_Witness ==
    LET c == call["a"] IN
    /\ c.pc = "done"
    /\ c.blockchain = "Ethereum"
    /\ c.seed_id = "seedMissing" /\ c.wallet_id = "w2"
    /\ c.opts.xpub # NoXPub
    /\ c.result.err = "IncorrectBlockchainError"

\* C9: a call that comes to a seed of encrypted bytes (chain type accepted,
\* seed found, purpose accepted) without a seed password has failed with
\* PasswordRequired, having neither decrypted nor derived anything, and the
\* wallet store is as it was; a supplied extended public key changes nothing.
C9_PasswordRequired ==
    LET c == call["a"] IN
    (/\ c.pc # "idle"
     /\ ChainAccepted(c.blockchain)
     /\ c.seed_id \in DOMAIN seeds
     /\ seeds[c.seed_id].kind = "Bytes"
     /\ c.hd_path.purpose = purpose_of("P2WPKH")
     /\ c.opts.seed_password = NoPassword) =>
        /\ c.pc = "done"
        /\ c.result = Err("PasswordRequired")
        /\ c.trace = <<"seeds.get">>
        /\ c.derived = NoXPub
        /\ wallets = c.before

\* no password, but an extended public key, for the stored Bytes seed
C9_Witness ==
    LET c == call["a"] IN
    /\ c.pc = "done"
    /\ c.seed_id = "seedBytes"
    /\ c.opts.seed_password = NoPassword
    /\ c.opts.xpub # NoXPub
    /\ c.result.err = "PasswordRequired"

\* C10: a call with an account path whose purpose is not the P2WPKH purpose
\* has failed with an error and the wallet store is as it was (no entry is
\* stored under a coerced path); once the chain type is accepted and the seed
\* found, the error is UnsupportedDataError, raised before any key material
\* is looked for.
C10_WrongPurposeRejected ==
    LET c == call["a"] IN
    (c.pc # "idle" /\ c.hd_path.purpose # purpose_of("P2WPKH")) =>
        /\ c.pc = "done"
        /\ ~c.result.ok /\ c.result.err # ""
        /\ wallets = c.before
        /\ (ChainAccepted(c.blockchain) /\ c.seed_id \in DOMAIN seeds) =>
              /\ c.result = Err("UnsupportedDataError")
              /\ c.trace = <<"seeds.get">>

\* a legacy-purpose path with a good password for the stored Bytes seed
C10_Witness ==
    LET c == call["a"] IN
    /\ c.pc = "done"
    /\ c.hd_path.purpose = 44
    /\ c.seed_id = "seedBytes" /\ c.opts.seed_password = "test"
    /\ c.blockchain = "Bitcoin"
    /\ c.result.err = "UnsupportedDataError"

\* the number of times an operation occurs in a call's trace
Occurrences(trace, op) == Cardinality({i \in 1..Len(trace) : trace[i] = op})

\* C11: a seed_hd call that has not reached its wallet update, or that failed
\* (wrong chain, seed or wallet not found, wrong purpose, missing or wrong
\* password, device error, key mismatch, no key, network mismatch), leaves the
\* stored wallets and seeds as they were when it was called; a successful call
\* has made exactly one wallets.update, and the stored wallet differs from the
\* one before by the new entry, entry_seq = id + 1 and the reservation, all at once
C11_AllOrNothing ==
    LET c == call["a"] IN
    /\ seeds = StoredSeeds
    /\ (c.pc \in {"read", "write"} \/ (c.pc = "done" /\ ~c.result.ok)) =>
          /\ wallets = c.before
          /\ Occurrences(c.trace, "wallets.update") = 0
    /\ (c.pc = "done" /\ c.result.ok) =>
          /\ Occurrences(c.trace, "wallets.update") = 1
          /\ c.wallet_id \in DOMAIN c.before
          /\ LET old == c.before[c.wallet_id]
                 entry == NewEntry(c.result.id, c.blockchain, c.xpub,
                                   c.seed_id, c.account) IN
             wallets = [c.before EXCEPT ![c.wallet_id] =
                           [old EXCEPT
                               !.entries = Append(old.entries, entry),
                               !.entry_seq = c.result.id + 1,
                               !.reserved = old.reserved \cup
                                   {[seed_id |-> c.seed_id,
                                     account_id |-> c.account.account]}]]

\* a call has failed on a wallet that already holds an entry
C11_Witness ==
    LET c == call["a"] IN
    /\ c.pc = "done"
    /\ ~c.result.ok
    /\ Len(wallets["w1"].entries) = 1
    /\ wallets = c.before

\* ------------------------------------------------- keystore JSON documents

\* an optional field is a sequence of at most one value
None == <<>>
Some(v) == <<v>>

\* CURRENT_VERSION and SUPPORTED_VERSIONS
CURRENT_VERSION == 3
SUPPORTED_VERSIONS == {CURRENT_VERSION}

\* the version numbers a document may carry: below, at and above the current
\* one, the ends of u8, and numbers no u8 holds (259 = 3 + 256)
DocVersions == {0, 2, 3, 4, 255, 256, 259}

\* the JSON documents handed to the decoder: every field well-formed or not
KeyFileDocs ==
    [version : {None} \cup {Some(v) : v \in DocVersions},
     id : {"uuid", "malformed", "absent"},
     address : {"addr1"},
     name : {None, Some("main")},
     visible : {None, Some(TRUE), Some(FALSE)},
     crypto : {"wellformed", "malformed"}]

NoKeyFile == [id |-> "", address |-> "", name |-> None, visible |-> None]

\* SerializableKeyFile::decode: version into a u8, id into a Uuid, crypto into
\* Crypto; name, description and visible are optional
SerializableKeyFile_decode(doc) ==
    IF \/ doc.version = None
       \/ doc.version[1] < 0
       \/ doc.version[1] > 255
       \/ doc.id # "uuid"
       \/ doc.crypto # "wellformed"
    THEN [ok |-> FALSE, version |-> 0, kf |-> NoKeyFile]
    ELSE [ok |-> TRUE, version |-> doc.version[1],
          kf |-> [id |-> doc.id, address |-> doc.address, name |-> doc.name,
                  visible |-> doc.visible]]

\* a check that lets every version up to the current one through
SupportedVersion_upto(version) == version <= CURRENT_VERSION

\* SUPPORTED_VERSIONS.contains(&sf.version)
SupportedVersion(version) == version \in SUPPORTED_VERSIONS

\* impl Decodable for KeyFile
KeyFile_decode(doc) ==
    LET sf == SerializableKeyFile_decode(doc) IN
    IF ~sf.ok
    THEN [ok |-> FALSE, err |-> "DecoderError", kf |-> NoKeyFile]
    ELSE IF ~SupportedVersion(sf.version)
    THEN [ok |-> FALSE, err |-> "UnsupportedVersion", kf |-> NoKeyFile]
    ELSE [ok |-> TRUE, err |-> "", kf |-> sf.kf]

\* impl From<KeyFile> for SerializableKeyFile, then json::encode: the document
\* of a key file, written with the current version
KeyFile_encode(kf) ==
    [version |-> Some(CURRENT_VERSION), id |-> kf.id, address |-> kf.address,
     name |-> kf.name, visible |-> kf.visible, crypto |-> "wellformed"]

besidesKeyFile ==
    <<seeds, wallets, call, returned, sealed, ledger, keystore, pkmsg, derivation, storage>>

\* a document is given to the decoder
KeyFileInit ==
    /\ VaultInit
    /\ keyfile \in {[pc |-> "given", doc |-> d,
                     result |-> [ok |-> FALSE, err |-> "", kf |-> NoKeyFile]] :
                        d \in KeyFileDocs}
    /\ sealed = Off
    /\ ledger = Off
    /\ keystore = Off
    /\ pkmsg = Off
    /\ derivation = Off
    /\ storage = Off

\* json::decode::<KeyFile>(document)
DecodeKeyFile ==
    /\ keyfile.pc = "given"
    /\ keyfile' = [keyfile EXCEPT !.pc = "decoded",
                                  !.result = KeyFile_decode(keyfile.doc)]
    /\ UNCHANGED besidesKeyFile

\* json::encode of the key file just decoded: the document to decode next
EncodeKeyFile ==
    /\ keyfile.pc = "decoded"
    /\ keyfile.result.ok
    /\ keyfile' = [pc |-> "given", doc |-> KeyFile_encode(keyfile.result.kf),
                   result |-> [ok |-> FALSE, err |-> "", kf |-> NoKeyFile]]
    /\ UNCHANGED besidesKeyFile

KeyFileNext ==
    \/ DecodeKeyFile
    \/ EncodeKeyFile

SpecKeyFile == KeyFileInit /\ [][KeyFileNext]_vars

\* C12: a document whose version is anything other than 3 never decodes, and
\* with every other field well-formed it fails as an unsupported version when
\* the number is a u8 at all; a well-formed document of version 3 decodes
C12_OnlyVersion3Decodes ==
    keyfile.pc = "decoded" =>
        LET doc == keyfile.doc
            wellformed == doc.id = "uuid" /\ doc.crypto = "wellformed" IN
        /\ keyfile.result.ok => doc.version = Some(CURRENT_VERSION)
        /\ (doc.version # Some(CURRENT_VERSION)) => ~keyfile.result.ok
        /\ (/\ wellformed
            /\ doc.version # None
            /\ doc.version # Some(CURRENT_VERSION)
            /\ doc.version[1] \in 0..255) =>
                keyfile.result.err = "UnsupportedVersion"
        /\ (wellformed /\ doc.version = Some(CURRENT_VERSION)) => keyfile.result.ok

\* a well-formed document of version 2 has been refused
C12_Witness ==
    /\ keyfile.pc = "decoded"
    /\ keyfile.doc.version = Some(2)
    /\ keyfile.doc.id = "uuid"
    /\ keyfile.doc.crypto = "wellformed"
    /\ keyfile.result.err = "UnsupportedVersion"

\* ------------------------------------------------------ the encrypted seed

\* the longest plaintext sealed
MaxPlain == 2

\* byte values of a plaintext, as far as the key stream tells them apart
PlainBytes == {0, 3, 15}

RECURSIVE SeqsUpTo(_, _)
SeqsUpTo(S, n) ==
    IF n = 0 THEN {<<>>}
    ELSE LET shorter == SeqsUpTo(S, n - 1) IN
         shorter \cup {Append(q, x) : q \in {t \in shorter : Len(t) = n - 1}, x \in S}

Plaintexts == SeqsUpTo(PlainBytes, MaxPlain)

\* the passphrases used to seal and to open
SealPasswords == Passwords \cup {""}

NoEncrypted == [ciphertext |-> <<>>, mac |-> <<>>]
NoKeyResult == [err |-> "", xpub |-> NoXPub, dev |-> NoDevice, steps |-> <<>>]

besidesSealed ==
    <<seeds, wallets, call, returned, keyfile, ledger, keystore, pkmsg, derivation, storage>>

\* a plaintext and the passphrase it is to be saved under
SealedInit ==
    /\ VaultInit
    /\ keyfile = Off
    /\ sealed \in {[pc |-> "plain", plain |-> p, save_password |-> w,
                    encrypted |-> NoEncrypted, seed_password |-> "",
                    out |-> [ok |-> FALSE, bytes |-> <<>>],
                    key |-> NoKeyResult] :
                       p \in Plaintexts, w \in SealPasswords}
    /\ ledger = Off
    /\ keystore = Off
    /\ pkmsg = Off
    /\ derivation = Off
    /\ storage = Off

\* Seed::generate: SeedSource::Bytes(Encrypted::encrypt(seed, save_password))
Seed_generate ==
    /\ sealed.pc = "plain"
    /\ sealed' = [sealed EXCEPT
                     !.pc = "sealed",
                     !.encrypted = Encrypt(sealed.plain, sealed.save_password)]
    /\ UNCHANGED besidesSealed

\* seed.decrypt(seed_password) with a passphrase of the caller's
Seed_decrypt ==
    /\ sealed.pc = "sealed"
    /\ \E w \in SealPasswords :
          sealed' = [sealed EXCEPT
                        !.pc = "opened", !.seed_password = w,
                        !.out = Decrypt(sealed.encrypted, w)]
    /\ UNCHANGED besidesSealed

\* the SeedSource::Bytes branch of seed_hd on the sealed seed, with the same
\* passphrase
Seed_derive ==
    /\ sealed.pc = "opened"
    /\ sealed' = [sealed EXCEPT
                     !.pc = "derived",
                     !.key = BytesXPub(sealed.encrypted,
                                 [seed_password |-> sealed.seed_password,
                                  xpub |-> NoXPub],
                                 "Bitcoin", "P2WPKH",
                                 [purpose |-> 84, coin_type |-> 0, account |-> 0])]
    /\ UNCHANGED besidesSealed

SealedNext ==
    \/ Seed_generate
    \/ Seed_decrypt
    \/ Seed_derive

SpecSealed == SealedInit /\ [][SealedNext]_vars

\* C13: decrypting what encrypt made of a plaintext gives the plaintext back
\* under the passphrase it was sealed with, and under any other passphrase
\* fails without giving any bytes; seed_hd's branch with such a passphrase
\* fails right after the decrypt, with no derivation step and no key
C13_RoundTripOrFail ==
    /\ sealed.pc \in {"opened", "derived"} =>
          IF sealed.seed_password = sealed.save_password
          THEN sealed.out.ok /\ sealed.out.bytes = sealed.plain
          ELSE ~sealed.out.ok /\ sealed.out.bytes = <<>>
    /\ (sealed.pc = "derived" /\ sealed.seed_password # sealed.save_password) =>
          /\ sealed.key.err = "CryptoFailed"
          /\ sealed.key.xpub = NoXPub
          /\ sealed.key.steps = <<"decrypt">>

\* a sealed two-byte seed has been refused to another passphrase
C13_Witness ==
    /\ sealed.pc = "derived"
    /\ Len(sealed.plain) = 2
    /\ sealed.seed_password # sealed.save_password
    /\ sealed.key.err = "CryptoFailed"

\* ---------------------------------------------------- Ledger::sign_tx

LEDGER_SIGN_TX_CLA == 226
LEDGER_SIGN_TX_INS == 4
DATA_CHUNK_SIZE == 255

\* a header whose lc keeps only the low byte of the length
get_sign_tx_header_low(p1, len) ==
    <<LEDGER_SIGN_TX_CLA, LEDGER_SIGN_TX_INS, p1, 0, 0, 0, len % 256>>

\* Ledger::get_sign_tx_header: cla, ins, p1, p2 and lc = [0, (len >> 8) as u8,
\* (len & 0xff) as u8], as the bytes to_u8_array lays out
get_sign_tx_header(p1, len) ==
    <<LEDGER_SIGN_TX_CLA, LEDGER_SIGN_TX_INS, p1, 0,
      0, (len \div 256) % 256, len % 256>>

\* size_of::<U2FAPDUHeader>()
U2FAPDUHEADER_SIZE == Len(get_sign_tx_header(0, 0))

\* data_vec of sign_tx: zeroes of header size + tr.len() + 2, the header copied
\* to the front and the payload right after it
SignTxFrame(tr) == get_sign_tx_header(0, Len(tr)) \o tr \o <<0, 0>>

\* a frame as the device takes it: p1 of the header and the payload part
FrameP1(frame) == frame[3]
FramePayload(frame) == SubSeq(frame, U2FAPDUHEADER_SIZE + 1, Len(frame) - 2)

\* the payload the device puts together from the frames it received, in order
RECURSIVE Reassembled(_)
Reassembled(frames) ==
    IF frames = <<>> THEN <<>>
    ELSE FramePayload(Head(frames)) \o Reassembled(Tail(frames))

\* transaction payloads: lengths around one chunk, two byte patterns
TxLengths == {0, 1, 2, 254, 255, 256, 257, 300}
TxPayload(len, k) == [i \in 1..len |-> (i * k) % 256]
Transactions == {TxPayload(len, k) : len \in TxLengths, k \in {1, 7}}

\* what the device may answer: a signature, or bytes of no valid length
Responses == {<<27, 1, 2>>, <<>>}

NoOutcome == [kind |-> "pending", bytes |-> <<>>, err |-> ""]

besidesLedger ==
    <<seeds, wallets, call, returned, keyfile, sealed, keystore, pkmsg, derivation, storage>>

\* sign_tx is called with a transaction
LedgerInit ==
    /\ VaultInit
    /\ keyfile = Off
    /\ sealed = Off
    /\ ledger \in {[pc |-> "called", tr |-> tr, frames |-> <<>>,
                    callback |-> "none", channel |-> None, transport |-> "ok",
                    outcome |-> NoOutcome] : tr \in Transactions}
    /\ keystore = Off
    /\ pkmsg = Off
    /\ derivation = Off
    /\ storage = Off

\* the frame is built and handed to u2f.send_raw with the callback: the manager
\* takes the request, or refuses it and `?` returns the error, which the From
\* impls turn into HDWalletError
SendRaw ==
    /\ ledger.pc = "called"
    /\ \/ ledger' = [ledger EXCEPT !.pc = "waiting",
                                   !.frames = <<SignTxFrame(ledger.tr)>>,
                                   !.callback = "held"]
       \/ ledger' = [ledger EXCEPT !.pc = "returned",
                                   !.transport = "failed",
                                   !.outcome = [kind |-> "Err", bytes |-> <<>>,
                                                err |-> "HDWalletError"]]
    /\ UNCHANGED besidesLedger

\* the callback is invoked with Ok(v): tx.send(v)
DeviceReplies ==
    /\ ledger.callback = "held"
    /\ \E v \in Responses :
          ledger' = [ledger EXCEPT !.callback = "invoked", !.channel = Some(v)]
    /\ UNCHANGED besidesLedger

\* the callback is invoked with Err: rv.unwrap() panics in the manager's
\* thread and the sender is dropped with nothing sent
TransportFails ==
    /\ ledger.callback = "held"
    /\ ledger' = [ledger EXCEPT !.callback = "panicked", !.transport = "failed"]
    /\ UNCHANGED besidesLedger

\* the manager gives the request up and drops the callback uninvoked
CallbackDropped ==
    /\ ledger.callback = "held"
    /\ ledger' = [ledger EXCEPT !.callback = "dropped"]
    /\ UNCHANGED besidesLedger

\* the device never answers and the manager keeps the callback
DeviceSilent ==
    /\ ledger.callback = "held"
    /\ ledger' = [ledger EXCEPT !.callback = "kept"]
    /\ UNCHANGED besidesLedger

\* rx.recv().unwrap(): the value sent, a panic once the sender is gone with
\* nothing sent, and a wait without end otherwise; then Ok(res)
Recv ==
    /\ ledger.pc = "waiting"
    /\ \/ /\ ledger.channel # None
          /\ ledger' = [ledger EXCEPT
                           !.pc = "returned", !.channel = None,
                           !.outcome = [kind |-> "Ok", bytes |-> ledger.channel[1],
                                        err |-> ""]]
       \/ /\ ledger.channel = None
          /\ ledger.callback \in {"panicked", "dropped"}
          /\ ledger' = [ledger EXCEPT
                           !.pc = "panicked",
                           !.outcome = [kind |-> "panic", bytes |-> <<>>,
                                        err |-> "RecvError"]]
    /\ UNCHANGED besidesLedger

LedgerNext ==
    \/ SendRaw
    \/ DeviceReplies
    \/ TransportFails
    \/ CallbackDropped
    \/ DeviceSilent
    \/ Recv

SpecLedger == LedgerInit /\ [][LedgerNext]_vars

\* the threads of sign_tx and of the device manager both keep running
SpecLedgerFair == SpecLedger /\ WF_vars(LedgerNext)

\* C14: once a payload longer than DATA_CHUNK_SIZE has been sent, the device
\* has a first frame (p1 0x00) and continuation frames (p1 0x80) of at most
\* DATA_CHUNK_SIZE payload bytes each, and their payload parts in order give
\* the original bytes
C14_LongPayloadSplit ==
    (Len(ledger.frames) > 0 /\ Len(ledger.tr) > DATA_CHUNK_SIZE) =>
        /\ Len(ledger.frames) >= 2
        /\ FrameP1(ledger.frames[1]) = 0
        /\ \A i \in 2..Len(ledger.frames) : FrameP1(ledger.frames[i]) = 128
        /\ \A i \in 1..Len(ledger.frames) :
              Len(FramePayload(ledger.frames[i])) <= DATA_CHUNK_SIZE
        /\ Reassembled(ledger.frames) = ledger.tr

\* C15: once the transport has reported a failure for the request, sign_tx
\* ends by returning Err(CommError), the one outcome of the request
C15_FailureReturnsCommError ==
    (ledger.transport = "failed" /\ ledger.pc # "waiting") =>
        /\ ledger.pc = "returned"
        /\ ledger.outcome.kind = "Err"
        /\ ledger.outcome.err = "CommError"

\* C16: every call of sign_tx comes to return to its caller, with the
\* response or with an error
C16_SignTxReturns == <>(ledger.pc = "returned")

\* ------------------------------------------------- the keystore directory

\* the files of the directory, in the order read_dir yields them
Files == <<"f1", "f2">>
FileNames == {Files[i] : i \in 1..Len(Files)}

\* the addresses asked for: those of the two files and one of no file
Addresses == {"addr1", "addr2", "addr3"}

\* what a file holds: the JSON of a document in full, a front part of it
\* (up to somewhere after the address), or nothing
Parts == {"all", "some", "none"}

\* the key files found in the directory at the start: f1 with or without a
\* name, f2 of a supported or an older version, each with any visible flag
StoredDocs(file) ==
    IF file = "f1"
    THEN [version : {Some(CURRENT_VERSION)}, id : {"uuid"}, address : {"addr1"},
          name : {None, Some("main")}, visible : {None, Some(TRUE), Some(FALSE)},
          crypto : {"wellformed"}]
    ELSE [version : {Some(CURRENT_VERSION), Some(2)}, id : {"uuid"},
          address : {"addr2"}, name : {Some("main")},
          visible : {None, Some(TRUE), Some(FALSE)}, crypto : {"wellformed"}]

\* json::decode::<KeyFile>(&content): only the whole JSON parses
Content_decode(content) ==
    IF content.part # "all"
    THEN [ok |-> FALSE, err |-> "ParseError", kf |-> NoKeyFile]
    ELSE KeyFile_decode(content.doc)

\* search_by_address over the files from the i-th on: a file in which the
\* address is found is decoded, and a decode failure is returned; the other
\* files are passed over
RECURSIVE search_from(_, _, _)
search_from(dir, addr, i) ==
    IF i > Len(Files)
    THEN [ok |-> FALSE, err |-> "NotFound", path |-> "", kf |-> NoKeyFile]
    ELSE LET content == dir[Files[i]] IN
         IF content.part # "none" /\ content.doc.address = addr
         THEN LET kf == Content_decode(content) IN
              IF kf.ok
              THEN [ok |-> TRUE, err |-> "", path |-> Files[i], kf |-> kf.kf]
              ELSE [ok |-> FALSE, err |-> kf.err, path |-> "", kf |-> NoKeyFile]
         ELSE search_from(dir, addr, i + 1)

search_by_address(dir, addr) == search_from(dir, addr, 1)

\* a listing that takes a key file without the flag for a hidden one
Shown_flagged(visible, show_hidden) ==
    (visible # None /\ visible[1]) \/ show_hidden

\* kf.visible.is_none() || kf.visible.unwrap() || show_hidden
Shown(visible, show_hidden) ==
    visible = None \/ visible[1] \/ show_hidden

\* the (name, address) pair of a key file: an empty name when it has none
AccountPair(kf) ==
    [name |-> IF kf.name = None THEN "" ELSE kf.name[1], address |-> kf.address]

\* list_accounts over the files from the i-th on: files that do not decode
\* are passed over
RECURSIVE list_from(_, _, _)
list_from(dir, show_hidden, i) ==
    IF i > Len(Files) THEN <<>>
    ELSE LET kf == Content_decode(dir[Files[i]])
             rest == list_from(dir, show_hidden, i + 1) IN
         IF kf.ok /\ Shown(kf.kf.visible, show_hidden)
         THEN <<AccountPair(kf.kf)>> \o rest
         ELSE rest

list_accounts(dir, show_hidden) == list_from(dir, show_hidden, 1)

NoWrite == [pc |-> "idle", path |-> "", doc |-> KeyFile_encode(NoKeyFile),
            result |-> "none"]
NoRead == [op |-> "none", show_hidden |-> FALSE,
           seen |-> [f \in FileNames |-> [doc |-> KeyFile_encode(NoKeyFile),
                                          part |-> "none"]],
           accounts |-> <<>>]

besidesKeystore ==
    <<seeds, wallets, call, returned, keyfile, sealed, ledger, pkmsg, derivation, storage>>

\* a directory of complete key files, nobody writing or reading
KeystoreInit ==
    /\ VaultInit
    /\ keyfile = Off
    /\ sealed = Off
    /\ ledger = Off
    /\ keystore \in {[pc |-> "on", dir |-> [f \in FileNames |->
                                               [doc |-> d[f], part |-> "all"]],
                      writer |-> NoWrite, reader |-> NoRead] :
                         d \in [f1 : StoredDocs("f1"), f2 : StoredDocs("f2")]}
    /\ pkmsg = Off
    /\ derivation = Off
    /\ storage = Off

\* hide or unhide: search_by_address, then the key file with the new flag is
\* encoded for write; a failed search is returned as it is
SetVisible(addr, flag) ==
    /\ keystore.writer.pc = "idle"
    /\ LET found == search_by_address(keystore.dir, addr) IN
       keystore' = [keystore EXCEPT !.writer =
                       IF ~found.ok
                       THEN [NoWrite EXCEPT !.result = found.err]
                       ELSE [pc |-> "encoded", path |-> found.path,
                             doc |-> KeyFile_encode(
                                        [found.kf EXCEPT !.visible = Some(flag)]),
                             result |-> "none"]]
    /\ UNCHANGED besidesKeystore

\* hide(addr, path): visible = Some(false)
Hide == \E addr \in Addresses : SetVisible(addr, FALSE)

\* unhide(addr, path): visible = Some(true)
Unhide == \E addr \in Addresses : SetVisible(addr, TRUE)

\* write: File::create(&p) opens the file in place and empties it
FileCreate ==
    /\ keystore.writer.pc = "encoded"
    /\ keystore' = [keystore EXCEPT
                       !.writer.pc = "created",
                       !.dir[keystore.writer.path] =
                           [doc |-> keystore.writer.doc, part |-> "none"]]
    /\ UNCHANGED besidesKeystore

\* write: file.write_all has put a front part of the JSON into the file
WriteSome ==
    /\ keystore.writer.pc = "created"
    /\ keystore' = [keystore EXCEPT
                       !.writer.pc = "writing",
                       !.dir[keystore.writer.path].part = "some"]
    /\ UNCHANGED besidesKeystore

\* write: file.write_all has put all of the JSON; Ok(()), and Ok(true)
WriteAll ==
    /\ keystore.writer.pc \in {"created", "writing"}
    /\ keystore' = [keystore EXCEPT
                       !.writer = [NoWrite EXCEPT !.result = "Ok"],
                       !.dir[keystore.writer.path].part = "all"]
    /\ UNCHANGED besidesKeystore

\* write: file.write_all fails part way; .ok() drops the error and the file
\* stays as far as it got; Ok(()), and Ok(true)
WriteFails ==
    /\ keystore.writer.pc \in {"created", "writing"}
    /\ keystore' = [keystore EXCEPT !.writer = [NoWrite EXCEPT !.result = "Ok"]]
    /\ UNCHANGED besidesKeystore

\* list_accounts(path, show_hidden) by a reader: every file is read as it is
ListAccounts ==
    /\ \E show_hidden \in BOOLEAN :
          keystore' = [keystore EXCEPT !.reader =
                          [op |-> "list_accounts", show_hidden |-> show_hidden,
                           seen |-> keystore.dir,
                           accounts |-> list_accounts(keystore.dir, show_hidden)]]
    /\ UNCHANGED besidesKeystore

KeystoreNext ==
    \/ Hide
    \/ Unhide
    \/ FileCreate
    \/ WriteSome
    \/ WriteAll
    \/ WriteFails
    \/ ListAccounts

SpecKeystore == KeystoreInit /\ [][KeystoreNext]_vars

\* C17: whatever a reader reads while write rewrites a file is a record in
\* full, the old one or the new one, never an empty or a half-written file
C17_ReaderSeesWholeRecords ==
    keystore.reader.op = "list_accounts" =>
        \A f \in FileNames : keystore.reader.seen[f].part = "all"

\* the number of files whose decodable, listed key file gives that pair
FilesListedAs(seen, show_hidden, pair) ==
    Cardinality({f \in FileNames :
        LET kf == Content_decode(seen[f]) IN
        /\ kf.ok
        /\ \/ kf.kf.visible \in {None, Some(TRUE)}
           \/ (kf.kf.visible = Some(FALSE) /\ show_hidden)
        /\ pair.address = kf.kf.address
        /\ pair.name = (IF kf.kf.name = None THEN "" ELSE kf.kf.name[1])})

\* C18: list_accounts returns one (name, address) pair for every file that
\* decodes and whose key file is visible (flag absent or true), one for every
\* hidden one exactly when show_hidden is set, and nothing else; a key file
\* without a name is listed with the empty name
C18_ListsVisibleAccounts ==
    keystore.reader.op = "list_accounts" =>
        LET r == keystore.reader
            pairs == [name : {"", "main"}, address : Addresses] IN
        \A pair \in pairs :
            Occurrences(r.accounts, pair) =
                FilesListedAs(r.seen, r.show_hidden, pair)

\* a listing without show_hidden of a directory that holds a hidden key file,
\* a nameless visible one and nothing half-written
C18_Witness ==
    /\ keystore.reader.op = "list_accounts"
    /\ ~keystore.reader.show_hidden
    /\ \A f \in FileNames : keystore.reader.seen[f].part = "all"
    /\ keystore.reader.seen["f1"].doc.name = None
    /\ keystore.reader.seen["f1"].doc.visible = None
    /\ keystore.reader.seen["f2"].doc.visible = Some(FALSE)
    /\ keystore.reader.seen["f2"].doc.version = Some(CURRENT_VERSION)
    /\ keystore.reader.accounts = <<[name |-> "", address |-> "addr1"]>>

\* ------------------------------------------- protobuf PrivateKey messages

\* strings that parse as a UUID, and strings that parse as an address
Uuids == {"uuid-1", "uuid-2"}
EthAddresses == {"0xa1", "0xa2"}

\* the messages parse_from_bytes may give: id a string (empty when unset),
\* ethereum an optional EthereumPrivateKey, its pk an optional EthereumPK3
\* with an address string (empty when unset) and an optional Encrypted value
PkMessages ==
    LET pk3s == [address : EthAddresses \cup {"", "junk"},
                 value : {None, Some("wellformed"), Some("malformed")}]
        ethereums == [pk : {None} \cup {Some(p) : p \in pk3s}] IN
    [id : Uuids \cup {"", "not-a-uuid"},
     ethereum : {None} \cup {Some(e) : e \in ethereums}]

NoHolder == [id |-> "", address |-> None, key |-> "none"]
NoConversionError == [kind |-> "", field |-> ""]
ConversionError(kind, field) ==
    [ok |-> FALSE, err |-> [kind |-> kind, field |-> field], holder |-> NoHolder]

\* Encrypted::try_from(v): the Encrypted of a well-formed message, and the
\* conversion's own error otherwise
Encrypted_try_from(v) ==
    IF v = "wellformed"
    THEN [ok |-> TRUE, err |-> NoConversionError, key |-> v]
    ELSE [ok |-> FALSE, err |-> [kind |-> "EncryptedError", field |-> "value"],
          key |-> "none"]

\* an id that falls back to the nil UUID when the string does not parse
HolderId_default(id) ==
    IF id \in Uuids THEN [ok |-> TRUE, id |-> id] ELSE [ok |-> TRUE, id |-> "uuid-nil"]

\* Uuid::from_str(m.get_id()).map_err(InvalidFieldValue("id"))
HolderId(id) ==
    IF id \in Uuids THEN [ok |-> TRUE, id |-> id] ELSE [ok |-> FALSE, id |-> ""]

\* impl TryFrom<&[u8]> for PrivateKeyHolder, on the parsed message
PrivateKeyHolder_try_from(m) ==
    IF m.ethereum = None
    THEN ConversionError("InvalidFieldValue", "pk")
    ELSE IF m.ethereum[1].pk = None
    THEN ConversionError("FieldIsEmpty", "pk")
    ELSE LET pk == m.ethereum[1].pk[1] IN
         IF pk.value = None
         THEN ConversionError("FieldIsEmpty", "encrypted")
         ELSE LET key == Encrypted_try_from(pk.value[1])
                  address == IF pk.address \in EthAddresses
                             THEN Some(pk.address) ELSE None
                  id == HolderId(m.id) IN
              IF ~key.ok
              THEN [ok |-> FALSE, err |-> key.err, holder |-> NoHolder]
              ELSE IF ~id.ok
              THEN ConversionError("InvalidFieldValue", "id")
              ELSE [ok |-> TRUE, err |-> NoConversionError,
                    holder |-> [id |-> id.id, address |-> address,
                                key |-> key.key]]

\* an encoder that never sets the address
PrivateKeyHolder_into_bare(holder) ==
    [id |-> holder.id,
     ethereum |-> Some([pk |-> Some([address |-> "", value |-> Some(holder.key)])])]

\* impl TryFrom<PrivateKeyHolder> for Vec<u8>: id, the address when there is
\* one, the value, pk and ethereum are set
PrivateKeyHolder_into(holder) ==
    [id |-> holder.id,
     ethereum |-> Some([pk |-> Some(
         [address |-> IF holder.address = None THEN "" ELSE holder.address[1],
          value |-> Some(holder.key)])])]

besidesPkMsg ==
    <<seeds, wallets, call, returned, keyfile, sealed, ledger, keystore, derivation, storage>>

\* the bytes of a message are handed to try_from
PkMsgInit ==
    /\ VaultInit
    /\ keyfile = Off
    /\ sealed = Off
    /\ ledger = Off
    /\ keystore = Off
    /\ pkmsg \in {[pc |-> "given", m |-> m, encoded |-> NoHolder,
                   result |-> [ok |-> FALSE, err |-> NoConversionError,
                               holder |-> NoHolder]] : m \in PkMessages}
    /\ derivation = Off
    /\ storage = Off

\* PrivateKeyHolder::try_from(bytes)
DecodePk ==
    /\ pkmsg.pc = "given"
    /\ pkmsg' = [pkmsg EXCEPT !.pc = "decoded",
                              !.result = PrivateKeyHolder_try_from(pkmsg.m)]
    /\ UNCHANGED besidesPkMsg

\* Vec::<u8>::try_from(holder) of the holder just decoded: the bytes to
\* decode next
EncodePk ==
    /\ pkmsg.pc = "decoded"
    /\ pkmsg.result.ok
    /\ pkmsg' = [pc |-> "given", m |-> PrivateKeyHolder_into(pkmsg.result.holder),
                 encoded |-> pkmsg.result.holder,
                 result |-> [ok |-> FALSE, err |-> NoConversionError,
                             holder |-> NoHolder]]
    /\ UNCHANGED besidesPkMsg

PkMsgNext ==
    \/ DecodePk
    \/ EncodePk

SpecPkMsg == PkMsgInit /\ [][PkMsgNext]_vars

\* C19: a message without the ethereum payload fails with
\* InvalidFieldValue("pk"), an ethereum payload without pk with
\* FieldIsEmpty("pk"), a pk without the encrypted value with
\* FieldIsEmpty("encrypted"), and, these being present, an id that is no UUID
\* with InvalidFieldValue("id"); a message decodes only when all of them are
\* there and valid, and the holder then carries the message's own id and
\* value, never a default
C19_RequiredFieldsOrError ==
    pkmsg.pc = "decoded" =>
        LET m == pkmsg.m
            r == pkmsg.result
            has_pk == m.ethereum # None /\ m.ethereum[1].pk # None IN
        /\ m.ethereum = None =>
              r = ConversionError("InvalidFieldValue", "pk")
        /\ (m.ethereum # None /\ m.ethereum[1].pk = None) =>
              r = ConversionError("FieldIsEmpty", "pk")
        /\ (has_pk /\ m.ethereum[1].pk[1].value = None) =>
              r = ConversionError("FieldIsEmpty", "encrypted")
        /\ (has_pk /\ m.ethereum[1].pk[1].value = Some("wellformed")
                   /\ m.id \notin Uuids) =>
              r = ConversionError("InvalidFieldValue", "id")
        /\ r.ok =>
              /\ has_pk
              /\ m.ethereum[1].pk[1].value = Some("wellformed")
              /\ m.id \in Uuids
              /\ r.holder.id = m.id
              /\ r.holder.key = m.ethereum[1].pk[1].value[1]
        /\ ~r.ok => (r.err.kind # "" /\ r.err.field # "" /\ r.holder = NoHolder)

\* a message complete but for an id that is no UUID has been refused
C19_Witness ==
    /\ pkmsg.pc = "decoded"
    /\ pkmsg.m.id = "not-a-uuid"
    /\ pkmsg.m.ethereum # None
    /\ pkmsg.m.ethereum[1].pk # None
    /\ pkmsg.m.ethereum[1].pk[1].value = Some("wellformed")
    /\ pkmsg.result = ConversionError("InvalidFieldValue", "id")

\* ------------------------------------------------------------ get_address

\* account indexes a caller may pass: the first ones, the last valid one
\* (2^31 - 1), and 0x80000000 and 0xffffffff, which are no hardened indexes
AccountIndexes == {0, 3, 2147483647, -2147483647 - 1, -1}

NoAddress == [err |-> "", xpub |-> NoXPub, steps |-> <<>>]

besidesDerivation ==
    <<seeds, wallets, call, returned, keyfile, sealed, ledger, keystore, pkmsg,
      storage>>

\* get_address is called for a blockchain, an account index and seed bytes
DerivationInit ==
    /\ VaultInit
    /\ keyfile = Off
    /\ sealed = Off
    /\ ledger = Off
    /\ keystore = Off
    /\ pkmsg = Off
    /\ derivation \in {[pc |-> "called", blockchain |-> b, account |-> a,
                        seed |-> s, result |-> NoAddress] :
                           b \in {"Bitcoin", "BitcoinTestnet"},
                           a \in AccountIndexes, s \in Plaintexts}
    /\ storage = Off

\* get_address(blockchain, AddressType::P2WPKH, account, seed)
GetAddress ==
    /\ derivation.pc = "called"
    /\ derivation' = [derivation EXCEPT
                         !.pc = "returned",
                         !.result = get_address(derivation.blockchain, "P2WPKH",
                                                derivation.account,
                                                derivation.seed)]
    /\ UNCHANGED besidesDerivation

DerivationNext == GetAddress

SpecDerivation == DerivationInit /\ [][DerivationNext]_vars

\* C20: for an account index that is no valid hardened index, get_address
\* fails on the index, whatever the seed bytes, and has taken no key
\* derivation step before it
C20_IndexCheckedBeforeDerivation ==
    (derivation.pc = "returned" /\ ~PathValue_is_ok(derivation.account)) =>
        /\ derivation.result.err = "PrivateKeyUnavailable"
        /\ derivation.result.xpub = NoXPub
        /\ derivation.result.steps = <<>>

\* ------------------------------------------------- seed_hd: further claims

\* C21: a seed_hd call that has passed every check before the wallet store,
\* on a wallet that exists and already holds the reservation of its
\* (seed_id, account) pair, succeeds all the same: one more entry is stored,
\* under an id no earlier entry has
C21_ReservationNeverBlocks ==
    LET c == call["a"] IN
    (/\ c.pc = "done"
     /\ Occurrences(c.trace, "wallets.get") = 1
     /\ c.wallet_id \in DOMAIN c.before
     /\ [seed_id |-> c.seed_id, account_id |-> c.account.account]
            \in c.before[c.wallet_id].reserved) =>
        LET old == c.before[c.wallet_id].entries
            new == wallets[c.wallet_id].entries IN
        /\ c.result.ok
        /\ Len(new) = Len(old) + 1
        /\ new[Len(new)].id = c.result.id
        /\ \A i \in 1..Len(old) : new[i] = old[i] /\ old[i].id # c.result.id

\* a second entry of the same seed and account has been added to the wallet
C21_Witness ==
    LET c == call["a"] IN
    /\ c.pc = "done"
    /\ c.result.ok
    /\ Len(wallets["w1"].entries) = 2
    /\ wallets["w1"].entries[1].key.seed_id = wallets["w1"].entries[2].key.seed_id
    /\ wallets["w1"].entries[1].key.hd_path.account
           = wallets["w1"].entries[2].key.hd_path.account
    /\ [seed_id |-> c.seed_id, account_id |-> c.account.account]
           \in c.before["w1"].reserved

\* the steps that obtain key material: the seed's decryption and derivation,
\* and the exchange with the hardware device
DerivationOps ==
    {"decrypt", "new_master", "derive_priv",
     "device.connect", "device.is_open", "device.get_xpub"}

\* the places of an operation in a call's trace
Places(trace, ops) == {i \in 1..Len(trace) : trace[i] \in ops}

\* C22 as stated: in a call that has read and written the wallet record, the
\* key-derivation steps lie between the read and the write
C22_DerivationBetweenReadAndWrite ==
    LET c == call["a"] IN
    (c.pc = "done" /\ c.result.ok) =>
        \A d \in Places(c.trace, DerivationOps) :
            /\ \E g \in Places(c.trace, {"wallets.get"}) : g < d
            /\ \E u \in Places(c.trace, {"wallets.update"}) : d < u

\* C22 amended: the key-derivation steps all come before the read of the
\* wallet record, and the write of the record follows its read with no
\* derivation step, and no other store or device operation, in between
C22_DerivationBeforeRead ==
    LET c == call["a"] IN
    /\ \A d \in Places(c.trace, DerivationOps) :
          \A g \in Places(c.trace, {"wallets.get"}) : d < g
    /\ \A u \in Places(c.trace, {"wallets.update"}) :
          u > 1 /\ c.trace[u - 1] = "wallets.get"

\* a call has decrypted the seed, derived the key and stored the entry
C22_Witness ==
    LET c == call["a"] IN
    /\ c.pc = "done"
    /\ c.result.ok
    /\ Places(c.trace, {"decrypt"}) # {}
    /\ Places(c.trace, {"derive_priv"}) # {}
    /\ Places(c.trace, {"wallets.update"}) # {}

\* ------------------------------------------------ seed_hd: two callers

\* the requests of two callers at work on the same wallet: the stored seed
\* with its password, either account
SharedWalletRequests ==
    {r \in Requests :
        /\ r.wallet_id = "w1"
        /\ r.seed_id = "seedBytes"
        /\ r.hd_path.purpose = 84
        /\ r.hd_path.coin_type = 0
        /\ r.blockchain = "Bitcoin"
        /\ r.seed_password = "test"}

\* seed_hd called by a caller while the other may be at work
SharedSeedHdCall(p) == SeedHdCallOf(p, SharedWalletRequests)

\* both callers run, their steps interleaved in any order: seed_hd takes no
\* lock and the store serialises single operations only
SharedNext ==
    \E p \in Callers :
        \/ SharedSeedHdCall(p)
        \/ WalletsGet(p)
        \/ WalletsUpdate(p)
        \/ Return(p)

SpecShared == Init /\ [][SharedNext]_vars

\* the entries of the wallet record a caller read: its copy without the entry
\* it pushed
ReadEntries(c) == SubSeq(c.wallet.entries, 1, Len(c.wallet.entries) - 1)

\* the entry a caller pushed on its copy
PushedEntry(c) == c.wallet.entries[Len(c.wallet.entries)]

\* caller p's wallets.update has just succeeded
Wrote(p) ==
    /\ call[p].pc = "write"
    /\ call'[p].pc = "done"
    /\ call'[p].result.ok

\* C23: when a caller's update succeeds on top of what another caller's call
\* wrote, and both had read the same wallet record, both return the same id
\* and the stored wallet is the record read plus the entry of the caller
\* writing now, the other caller's entry gone; when instead the caller had
\* read what the other had written, the stored wallet holds both entries,
\* under different ids
C23_LostUpdateWhenInterleaved ==
    [][\A p \in Callers : \A q \in Callers \ {p} :
          (/\ Wrote(p)
           /\ call[q].pc = "done"
           /\ call[q].result.ok
           /\ wallets[call[q].wallet_id] = Reserve(call[q].wallet)) =>
              LET cp == call[p]
                  cq == call[q]
                  stored == wallets'[cp.wallet_id].entries IN
              /\ ReadEntries(cp) = ReadEntries(cq) =>
                    /\ call'[p].result.id = cq.result.id
                    /\ stored = Append(ReadEntries(cp), PushedEntry(cp))
                    /\ Len(stored) = Len(wallets[cp.wallet_id].entries)
              /\ ReadEntries(cp) = cq.wallet.entries =>
                    /\ call'[p].result.id # cq.result.id
                    /\ stored = ReadEntries(cq)
                                   \o <<PushedEntry(cq), PushedEntry(cp)>>
    ]_vars

\* both callers have returned the same id for entries of different accounts,
\* and the stored wallet holds one entry only
C23_Witness ==
    /\ call["a"].pc = "done"
    /\ call["b"].pc = "done"
    /\ call["a"].result.ok
    /\ call["b"].result.ok
    /\ call["a"].result.id = call["b"].result.id
    /\ PushedEntry(call["a"]) # PushedEntry(call["b"])
    /\ Len(wallets["w1"].entries) = 1
    /\ Len(returned["w1"]) = 2

\* the caller's path with the coin type of the other network
OtherCoinType(hd_path) == [hd_path EXCEPT !.coin_type = 1 - hd_path.coin_type]

\* C24: the hd_path of a stored entry is made of the P2WPKH purpose 84, the
\* coin type of the requested blockchain's network and the caller's account
\* index, at change 0 and index 0; the coin type of the caller's path plays
\* no part: a call that fails before the wallet store fails the same way
\* with the other coin type
C24_CoinTypeFromBlockchain ==
    LET c == call["a"] IN
    /\ (c.pc = "done" /\ c.result.ok) =>
          PushedEntry(c).key.hd_path =
              [purpose |-> 84,
               coin_type |-> IF c.blockchain = "BitcoinTestnet" THEN 1 ELSE 0,
               account |-> c.hd_path.account, change |-> 0, index |-> 0]
    /\ (c.pc = "done" /\ Occurrences(c.trace, "wallets.get") = 0) =>
          SeedHdPrefix(seeds, c.seed_id, OtherCoinType(c.hd_path), c.blockchain,
                       c.opts, c.dev).err = c.result.err
    /\ c.pc \in {"read", "write"} =>
          SeedHdPrefix(seeds, c.seed_id, OtherCoinType(c.hd_path), c.blockchain,
                       c.opts, c.dev).err = ""

\* a path with the mainnet coin type has given a BitcoinTestnet entry, stored
\* with the testnet coin type
C24_Witness ==
    LET c == call["a"] IN
    /\ c.pc = "done"
    /\ c.result.ok
    /\ c.blockchain = "BitcoinTestnet"
    /\ c.hd_path.coin_type = 0
    /\ wallets["w1"].entries[Len(wallets["w1"].entries)].key.hd_path.coin_type = 1

\* ------------------------------------------------ keystore: hide and unhide

\* an account of that address is in a listing
Listed(accounts, addr) == \E i \in 1..Len(accounts) : accounts[i].address = addr

\* C25: when hide or unhide returns Ok, the account of the address is in the
\* listing with show_hidden in either case, and in the listing without it
\* after unhide only; the file found for the address differs from what it was
\* by the visible flag alone and no other file differs; and when the search
\* finds no file for the address the call fails with NotFound and no file has
\* changed
C25_HideAndUnhide ==
    [][/\ (/\ keystore.writer.pc \in {"created", "writing"}
           /\ keystore'.writer.pc = "idle"
           /\ keystore'.writer.result = "Ok") =>
              LET addr == keystore.writer.doc.address
                  flag == keystore.writer.doc.visible[1]
                  dir == keystore'.dir IN
              /\ Listed(list_accounts(dir, TRUE), addr)
              /\ Listed(list_accounts(dir, FALSE), addr) = flag
              /\ dir[keystore.writer.path] =
                    [doc |-> keystore.writer.doc, part |-> "all"]
       /\ (keystore.writer.pc = "idle" /\ keystore'.writer.pc = "encoded") =>
              LET f == keystore'.writer.path IN
              /\ keystore.dir[f].part = "all"
              /\ keystore'.writer.doc =
                    [keystore.dir[f].doc EXCEPT
                        !.visible = keystore'.writer.doc.visible]
       /\ \A f \in FileNames :
              keystore'.dir[f] # keystore.dir[f] =>
                  /\ keystore.writer.pc # "idle"
                  /\ f = keystore.writer.path
       /\ \A addr \in Addresses :
              (\A f \in FileNames : \/ keystore.dir[f].part = "none"
                                    \/ keystore.dir[f].doc.address # addr) =>
                  search_by_address(keystore.dir, addr).err = "NotFound"
       /\ (keystore.writer.pc = "idle" /\ keystore'.writer.pc = "idle") =>
              keystore'.dir = keystore.dir
    ]_vars

\* ------------------------------------------- PrivateKey: encode and decode

C27_OneFrameLayout ==
    (Len(ledger.frames) > 0 /\ Len(ledger.tr) < 65536) =>
        LET len == Len(ledger.tr)
            frame == ledger.frames[1]
        IN  /\ Len(ledger.frames) = 1
            /\ Len(frame) = U2FAPDUHEADER_SIZE + len + 2
            /\ SubSeq(frame, 1, U2FAPDUHEADER_SIZE) =
                  <<226, 4, 0, 0, 0, len \div 256, len % 256>>
            /\ \A i \in 1..len : frame[U2FAPDUHEADER_SIZE + i] = ledger.tr[i]
            /\ frame[U2FAPDUHEADER_SIZE + len + 1] = 0
            /\ frame[U2FAPDUHEADER_SIZE + len + 2] = 0

\* a payload longer than 255 bytes has been sent: the second lc byte is not 0
C27_Witness ==
    /\ Len(ledger.frames) = 1
    /\ Len(ledger.tr) = 300
    /\ ledger.frames[1][6] = 1
    /\ ledger.frames[1][7] = 44
    /\ Len(ledger.frames[1]) = 309

\* ------------------------------------------------------ storage directories
\* src/src/storage.rs. A path is the sequence of its components; the file
\* system is the set of the directories that exist.

\* default_path() on *nix: the home directory, then ".emerald"
HomeDir == <<"home">>
default_path == HomeDir \o <<".emerald">>

\* a base directory the user supplies (tests::should_use_user_path)
UserPath == <<"tmp", "some">>

ChainIds == {"mainnet", "morden"}

\* default_keystore_path and default_log_path: default_path(), the chain id,
\* then "keystore" or "log"
default_keystore_path(chain_id) == default_path \o <<chain_id, "keystore">>
default_log_path(chain_id) == default_path \o <<chain_id, "log">>

Parent(p) == SubSeq(p, 1, Len(p) - 1)

\* fs::create_dir: makes one directory; an error when the parent is missing or
\* the directory is there already
create_dir(fs, p) ==
    IF Parent(p) \in fs /\ p \notin fs
    THEN [ok |-> TRUE, fs |-> fs \cup {p}]
    ELSE [ok |-> FALSE, fs |-> fs]

\* if !p.exists() { fs::create_dir(p)? }
CreateUnlessExists(fs, p) ==
    IF p \in fs THEN [ok |-> TRUE, fs |-> fs] ELSE create_dir(fs, p)

\* Storages::init
Storages_init(fs, base_dir) == CreateUnlessExists(fs, base_dir)

\* ChainStorage::init: the chain directory under the base directory, then the
\* keystore and the log directory of default_keystore_path and
\* default_log_path; the first error is returned and what was made stays
ChainStorage_init(fs, base_dir, id) ==
    LET chain == CreateUnlessExists(fs, base_dir \o <<id>>)
        ks == CreateUnlessExists(chain.fs, default_keystore_path(id))
        log == CreateUnlessExists(ks.fs, default_log_path(id))
    IN  IF ~chain.ok THEN chain
        ELSE IF ~ks.ok THEN ks
        ELSE log

\* ChainStorage::get_path: base directory, chain id, then the id asked for
ChainStorage_get_path(fs, base_dir, chain_id, id) ==
    CreateUnlessExists(fs, base_dir \o <<chain_id, id>>)

besidesStorage ==
    <<seeds, wallets, call, returned, keyfile, sealed, ledger, keystore, pkmsg,
      derivation>>

\* a Storages over the default or a user's base directory; of the directories
\* it deals with only the home directory and the user path's parent exist
StorageInit ==
    /\ VaultInit
    /\ keyfile = Off
    /\ sealed = Off
    /\ ledger = Off
    /\ keystore = Off
    /\ pkmsg = Off
    /\ derivation = Off
    /\ storage \in {[base_dir |-> b, fs |-> {HomeDir, Parent(UserPath)},
                     op |-> "new", id |-> "", ok |-> TRUE] :
                        b \in {default_path, UserPath}}

\* Storages::new(path) or Storages::default()
StoragesNew ==
    /\ storage # Off
    /\ \E b \in {default_path, UserPath} :
          storage' = [storage EXCEPT !.base_dir = b, !.op = "new", !.id = "",
                                     !.ok = TRUE]
    /\ UNCHANGED besidesStorage

StoragesInit ==
    /\ storage # Off
    /\ \E r \in {Storages_init(storage.fs, storage.base_dir)} :
          storage' = [storage EXCEPT !.fs = r.fs, !.op = "Storages::init",
                                     !.id = "", !.ok = r.ok]
    /\ UNCHANGED besidesStorage

ChainStorageInit ==
    /\ storage # Off
    /\ \E id \in ChainIds :
       \E r \in {ChainStorage_init(storage.fs, storage.base_dir, id)} :
          storage' = [storage EXCEPT !.fs = r.fs, !.op = "ChainStorage::init",
                                     !.id = id, !.ok = r.ok]
    /\ UNCHANGED besidesStorage

ChainStorageGetPath ==
    /\ storage # Off
    /\ \E chain_id \in ChainIds, id \in {"keystore", "log"} :
       \E r \in {ChainStorage_get_path(storage.fs, storage.base_dir, chain_id, id)} :
          storage' = [storage EXCEPT !.fs = r.fs, !.op = "get_path",
                                     !.id = chain_id, !.ok = r.ok]
    /\ UNCHANGED besidesStorage

StorageNext ==
    \/ StoragesNew
    \/ StoragesInit
    \/ ChainStorageInit
    \/ ChainStorageGetPath

SpecStorage == StorageInit /\ [][StorageNext]_vars

\* the chain directory, its keystore and its log directory under a base
ChainDirs(base_dir, id) ==
    {base_dir \o <<id>>, base_dir \o <<id, "keystore">>, base_dir \o <<id, "log">>}

\* C28: after ChainStorage::init succeeds for base directory B and chain C, the
\* chain directory, its keystore directory and its log directory all exist
\* under B; Storages::init or ChainStorage::init called when the directories
\* exist already succeeds and changes nothing
C28_ChainDirectoriesUnderBase ==
    [][/\ (storage'.op = "ChainStorage::init" /\ storage'.ok) =>
              ChainDirs(storage.base_dir, storage'.id) \subseteq storage'.fs
       /\ (/\ storage'.op = "ChainStorage::init"
           /\ storage.base_dir \in storage.fs
           /\ ChainDirs(storage.base_dir, storage'.id) \subseteq storage.fs) =>
              (storage'.ok /\ storage'.fs = storage.fs)
       /\ (storage'.op = "Storages::init" /\ storage.base_dir \in storage.fs) =>
              (storage'.ok /\ storage'.fs = storage.fs)]_vars

====
